---------------------------- MODULE Spec2Model ----------------------------
(***************************************************************************)
(* The research workflow of src/main.py: a LangGraph StateGraph over a    *)
(* ResearchState, with the nodes planner, router, tavily_search,          *)
(* arxiv_search, analyze, refine_query and write, the conditional edge    *)
(* should_continue after analyze, and the recursion limit of main().      *)
(*                                                                         *)
(* Strings are modelled by tokens.  report_content, which the code grows  *)
(* by  report_content += "\n" + search_results,  is the sequence of the   *)
(* payloads appended so far.  A model answer to the planner is the        *)
(* sequence of its lines.                                                  *)
(***************************************************************************)
EXTENDS Integers, Sequences, FiniteSets, TLC

VARIABLES
    pc,              \* the node the engine runs next ("should_continue": the edge after analyze)
    steps,           \* supersteps executed so far (one per node)
    branch_state,    \* how the engine hands the state to should_continue
    subtopics,       \* ResearchState["subtopics"]
    current_query,   \* ResearchState["current_query"]
    tool_choice,     \* ResearchState["tool_choice"]
    search_results,  \* ResearchState["search_results"]
    report_content,  \* ResearchState["report_content"]
    decision,        \* ResearchState["decision"]
    retries,         \* ResearchState["retries"]
    report,          \* ResearchState["report"]
    scenario,        \* history: 3 subtopics planned, every router answer TavilySearch, every analysis answer "continue"
    n_search,        \* history: search steps executed by a scenario run (0 once the run leaves the scenario)
    n_analyze,       \* history: analyze steps executed by a scenario run (0 once the run leaves the scenario)
    accepted,        \* history: the search_results held at each removal of a planned subtopic
    pass_searches,   \* history: search steps since the planner step or the last acceptance (analysed or forced)
    before_analyze   \* history, at the exit of analyze: <<Len(subtopics), Len(report_content), retries>> when analyze started

vars == <<pc, steps, branch_state, subtopics, current_query, tool_choice,
          search_results, report_content, decision, retries, report,
          n_search, n_analyze, scenario, accepted, pass_searches,
          before_analyze>>

state_vars == <<subtopics, current_query, tool_choice, search_results,
                report_content, decision, retries, report>>

--------------------------------------------------------------------------
(* Program constants *)

MAX_RETRIES == 3

recursion_limit == 50

--------------------------------------------------------------------------
(* The answers of the model and of the tools *)

topic == "topic"

\* The longest list of subtopics the planner model answers with.
MaxSubtopics == 3

SubtopicName(i) ==
    CASE i = 1 -> "s1"
      [] i = 2 -> "s2"
      [] i = 3 -> "s3"
      [] OTHER -> "s4"

\* Planner answers, as lines ("" is a blank line): the empty answer, lists of
\* one to MaxSubtopics subtopics, and answers with blank lines inside or around.
PlannerResponses ==
    { [i \in 1..n |-> SubtopicName(i)] : n \in 0..MaxSubtopics }
      \cup { <<"s1", "", "s2">>, <<"", "s1", "">> }

\* Router answers: a tool name, a tool name with white space around it, a tool
\* name followed by other text, and a text that names no tool.
RouterResponses == {"TavilySearch", " ArXiv\n", "ArXiv.", "Other"}

AnalysisResponses == {"continue", " Continue\n", "rewrite", "continue."}

RefinedQueries == {"r1"}

\* The payload a search tool returns, named after the current_query it was
\* asked about: searches of different queries return different payloads.
Results(query) ==
    CASE query = "s1" -> "results(s1)"
      [] query = "s2" -> "results(s2)"
      [] query = "s3" -> "results(s3)"
      [] query = "s4" -> "results(s4)"
      [] query = "r1" -> "results(r1)"
      [] query = ""   -> "results()"
      [] OTHER        -> "results(topic)"

Reports == {"report"}

--------------------------------------------------------------------------
(* str.strip() and str.lower() on the answers above *)

Strip(s) ==
    CASE s = " ArXiv\n"    -> "ArXiv"
      [] s = " Continue\n" -> "Continue"
      [] OTHER             -> s

Lower(s) ==
    CASE s = "Continue" -> "continue"
      [] OTHER          -> s

\* "continue" in decision
ContainsContinue(s) == s \in {"continue", "continue."}

RECURSIVE DropLeadingBlank(_)
DropLeadingBlank(ls) ==
    IF ls # <<>> /\ Head(ls) = "" THEN DropLeadingBlank(Tail(ls)) ELSE ls

RECURSIVE DropTrailingBlank(_)
DropTrailingBlank(ls) ==
    IF ls # <<>> /\ ls[Len(ls)] = ""
    THEN DropTrailingBlank(SubSeq(ls, 1, Len(ls) - 1))
    ELSE ls

\* str(response.content).strip().split("\n"): the text loses its leading and
\* trailing blank lines; splitting the empty text gives [""].
StripSplit(ls) ==
    LET t == DropTrailingBlank(DropLeadingBlank(ls))
    IN  IF t = <<>> THEN <<"">> ELSE t

--------------------------------------------------------------------------
Nodes == {"planner", "router", "tavily_search", "arxiv_search", "analyze",
          "refine_query", "write"}

Errors == {"KeyError", "GraphRecursionError"}

Terminal == {"END"} \cup Errors

\* A history counter is kept for a scenario run only.
Counted(in_scenario, n) == IF in_scenario THEN n ELSE 0

\* A faulty variant of MayRun: the run is started without the recursion limit.
MayRunUnbounded(node) == pc = node

\* The engine runs a node only below the recursion limit.
MayRun(node) == pc = node /\ steps < recursion_limit

Init ==
    /\ pc = "planner"
    /\ steps = 0
    /\ branch_state \in {"same_dict", "fresh_dict"}
    /\ subtopics = <<>>
    /\ current_query = topic
    /\ tool_choice = ""
    /\ search_results = ""
    /\ report_content = <<>>
    /\ decision = ""
    /\ retries = 0
    /\ report = ""
    /\ n_search = 0
    /\ n_analyze = 0
    /\ scenario = TRUE
    /\ accepted = <<>>
    /\ pass_searches = 0
    /\ before_analyze = <<0, 0, 0>>

planner_node ==
    /\ MayRun("planner")
    /\ \E response \in PlannerResponses :
         LET new == StripSplit(response)
         IN  /\ subtopics' = new
             /\ current_query' = IF new # <<>> THEN new[1] ELSE ""
             /\ scenario' = (Len(new) = 3)
    /\ retries' = 0
    /\ pass_searches' = 0
    /\ pc' = "router"
    /\ steps' = steps + 1
    /\ UNCHANGED <<branch_state, tool_choice, search_results, report_content,
                   decision, report, n_search, n_analyze, accepted,
                   before_analyze>>

\* A faulty variant of RouterEdge: an answer that names no tool falls back to
\* the web search.
RouterEdgeDefaults(choice) ==
    CASE choice = "ArXiv" -> "arxiv_search"
      [] OTHER            -> "tavily_search"

\* A faulty variant of RouterEdge: the key is matched by the tool name it
\* contains.
RouterEdgeContains(choice) ==
    CASE choice = "TavilySearch"         -> "tavily_search"
      [] choice \in {"ArXiv", "ArXiv."} -> "arxiv_search"
      [] OTHER                           -> "KeyError"

\* The conditional edge after router: the mapping of build_workflow.
RouterEdge(choice) ==
    CASE choice = "TavilySearch" -> "tavily_search"
      [] choice = "ArXiv"        -> "arxiv_search"
      [] OTHER                   -> "KeyError"

router_node ==
    /\ MayRun("router")
    /\ \E response \in RouterResponses :
         /\ tool_choice' = Strip(response)
         /\ scenario' = (scenario /\ Strip(response) = "TavilySearch")
    /\ pc' = RouterEdge(tool_choice')
    /\ steps' = steps + 1
    /\ n_search' = Counted(scenario', n_search)
    /\ n_analyze' = Counted(scenario', n_analyze)
    /\ UNCHANGED <<branch_state, subtopics, current_query, search_results,
                   report_content, decision, retries, report, accepted,
                   pass_searches, before_analyze>>

\* A faulty variant of tavily_search_node: the search also clears the verdict
\* of the previous analysis.
tavily_search_nodeClearsDecision ==
    /\ MayRun("tavily_search")
    /\ retries' = retries + 1
    /\ search_results' = Results(current_query)
    /\ decision' = ""
    /\ pc' = "analyze"
    /\ steps' = steps + 1
    /\ n_search' = Counted(scenario, n_search + 1)
    /\ pass_searches' = pass_searches + 1
    /\ UNCHANGED <<branch_state, subtopics, current_query, tool_choice,
                   report_content, report, n_analyze, scenario, accepted,
                   before_analyze>>

tavily_search_node ==
    /\ MayRun("tavily_search")
    /\ retries' = retries + 1
    /\ search_results' = Results(current_query)
    /\ pc' = "analyze"
    /\ steps' = steps + 1
    /\ n_search' = Counted(scenario, n_search + 1)
    /\ pass_searches' = pass_searches + 1
    /\ UNCHANGED <<branch_state, subtopics, current_query, tool_choice,
                   report_content, decision, report, n_analyze, scenario,
                   accepted, before_analyze>>

arxiv_search_node ==
    /\ MayRun("arxiv_search")
    /\ retries' = retries + 1
    /\ search_results' = Results(current_query)
    /\ pc' = "analyze"
    /\ steps' = steps + 1
    /\ n_search' = Counted(scenario, n_search + 1)
    /\ pass_searches' = pass_searches + 1
    /\ UNCHANGED <<branch_state, subtopics, current_query, tool_choice,
                   report_content, decision, report, n_analyze, scenario,
                   accepted, before_analyze>>

\* subtopics.pop(0) if subtopics else None
PopFront(s) == IF s # <<>> THEN Tail(s) ELSE s

\* The history of acceptances: a planned subtopic leaves the list.
Accept(s) == IF s # <<>> THEN Append(accepted, search_results) ELSE accepted

\* The fields of the state that analyze_node reads and returns.
State ==
    [decision       |-> decision,
     subtopics      |-> subtopics,
     current_query  |-> current_query,
     retries        |-> retries,
     report_content |-> report_content,
     search_results |-> search_results]

\* A faulty variant of AnalyzeUpdate: the accept branch assigns report_content (=)
\* where the code appends to it (+=).
AnalyzeUpdateOverwrites(st, response) ==
    LET d == Lower(Strip(response))
        rest == PopFront(st.subtopics)
    IN  IF d = "continue"
        THEN [decision       |-> IF rest # <<>> THEN "continue" ELSE "write",
              subtopics      |-> rest,
              current_query  |-> IF rest # <<>> THEN rest[1] ELSE st.current_query,
              retries        |-> 0,
              report_content |-> <<st.search_results>>]
        ELSE [decision       |-> d,
              subtopics      |-> st.subtopics,
              current_query  |-> st.current_query,
              retries        |-> st.retries,
              report_content |-> st.report_content]

\* A faulty variant of AnalyzeUpdate: retries is reset whatever the decision is.
AnalyzeUpdateResets(st, response) ==
    LET d == Lower(Strip(response))
        rest == PopFront(st.subtopics)
    IN  IF d = "continue"
        THEN [decision       |-> IF rest # <<>> THEN "continue" ELSE "write",
              subtopics      |-> rest,
              current_query  |-> IF rest # <<>> THEN rest[1] ELSE st.current_query,
              retries        |-> 0,
              report_content |-> Append(st.report_content, st.search_results)]
        ELSE [decision       |-> d,
              subtopics      |-> st.subtopics,
              current_query  |-> st.current_query,
              retries        |-> 0,
              report_content |-> st.report_content]

\* A faulty variant of AnalyzeUpdate: the accept branch leaves retries as it is.
AnalyzeUpdateKeepsRetries(st, response) ==
    LET d == Lower(Strip(response))
        rest == PopFront(st.subtopics)
    IN  IF d = "continue"
        THEN [decision       |-> IF rest # <<>> THEN "continue" ELSE "write",
              subtopics      |-> rest,
              current_query  |-> IF rest # <<>> THEN rest[1] ELSE st.current_query,
              retries        |-> st.retries,
              report_content |-> Append(st.report_content, st.search_results)]
        ELSE [decision       |-> d,
              subtopics      |-> st.subtopics,
              current_query  |-> st.current_query,
              retries        |-> st.retries,
              report_content |-> st.report_content]

\* The update analyze_node returns on state `st`, for the answer `response`.
AnalyzeUpdate(st, response) ==
    LET d == Lower(Strip(response))
        rest == PopFront(st.subtopics)
    IN  IF d = "continue"
        THEN [decision       |-> IF rest # <<>> THEN "continue" ELSE "write",
              subtopics      |-> rest,
              current_query  |-> IF rest # <<>> THEN rest[1] ELSE st.current_query,
              retries        |-> 0,
              report_content |-> Append(st.report_content, st.search_results)]
        ELSE [decision       |-> d,
              subtopics      |-> st.subtopics,
              current_query  |-> st.current_query,
              retries        |-> st.retries,
              report_content |-> st.report_content]

analyze_node ==
    /\ MayRun("analyze")
    /\ \E response \in AnalysisResponses :
         LET u == AnalyzeUpdate(State, response)
         IN  /\ decision' = u.decision
             /\ subtopics' = u.subtopics
             /\ current_query' = u.current_query
             /\ retries' = u.retries
             /\ report_content' = u.report_content
             /\ accepted' = IF Lower(Strip(response)) = "continue"
                            THEN Accept(subtopics) ELSE accepted
             /\ pass_searches' = IF Lower(Strip(response)) = "continue"
                                 THEN 0 ELSE pass_searches
             /\ scenario' = (scenario /\ response = "continue")
    /\ pc' = "should_continue"
    /\ steps' = steps + 1
    /\ n_search' = Counted(scenario', n_search)
    /\ n_analyze' = Counted(scenario', n_analyze + 1)
    /\ before_analyze' = <<Len(subtopics), Len(report_content), retries>>
    /\ UNCHANGED <<branch_state, tool_choice, search_results, report>>

\* A faulty variant of AnalyzeEdge: "continue" leads straight to a search.
AnalyzeEdgeSkipsRouter(label) ==
    CASE label = "continue" -> "tavily_search"
      [] label = "rewrite"  -> "refine_query"
      [] label = "write"    -> "write"

\* The conditional edge after analyze: the mapping of build_workflow.
AnalyzeEdge(label) ==
    CASE label = "continue" -> "router"
      [] label = "rewrite"  -> "refine_query"
      [] label = "write"    -> "write"

\* What should_continue returns.
ShouldContinueLabel ==
    IF retries >= MAX_RETRIES
    THEN IF PopFront(subtopics) # <<>> THEN "continue" ELSE "write"
    ELSE IF ContainsContinue(decision) THEN "continue" ELSE "rewrite"

\* should_continue returns a label only.  Its subtopics.pop(0) changes the
\* list object itself, which the steps that follow read.  Its assignments
\* state[key] = value change the mapping it was handed: they reach the steps
\* that follow when that mapping is the engine's own ("same_dict") and are
\* dropped when the engine builds the mapping for the call from its channels
\* ("fresh_dict").  main.py does not decide which; a run is either.
ItemWritesKept == branch_state = "same_dict"

should_continue ==
    /\ pc = "should_continue"
    /\ IF retries >= MAX_RETRIES
       THEN /\ subtopics' = PopFront(subtopics)
            /\ accepted' = Accept(subtopics)
            /\ pass_searches' = 0
            /\ IF ItemWritesKept
               THEN /\ retries' = 0
                    /\ report_content' = Append(report_content, search_results)
                    /\ current_query' = IF subtopics' # <<>> THEN subtopics'[1]
                                        ELSE current_query
               ELSE UNCHANGED <<retries, report_content, current_query>>
       ELSE UNCHANGED <<subtopics, accepted, pass_searches, retries,
                        report_content, current_query>>
    /\ before_analyze' = <<0, 0, 0>>
    /\ pc' = AnalyzeEdge(ShouldContinueLabel)
    /\ UNCHANGED <<steps, branch_state, tool_choice, search_results, decision,
                   report, n_search, n_analyze, scenario>>

\* A faulty variant of refine_query_node: the refinement also resets retries.
refine_query_nodeResets ==
    /\ MayRun("refine_query")
    /\ \E response \in RefinedQueries : current_query' = Strip(response)
    /\ retries' = 0
    /\ pc' = "router"
    /\ steps' = steps + 1
    /\ UNCHANGED <<branch_state, subtopics, tool_choice, search_results,
                   report_content, decision, report,
                   n_search, n_analyze, scenario, accepted, pass_searches,
                   before_analyze>>

refine_query_node ==
    /\ MayRun("refine_query")
    /\ \E response \in RefinedQueries : current_query' = Strip(response)
    /\ pc' = "router"
    /\ steps' = steps + 1
    /\ UNCHANGED <<branch_state, subtopics, tool_choice, search_results,
                   report_content, decision, retries, report,
                   n_search, n_analyze, scenario, accepted, pass_searches,
                   before_analyze>>

\* A faulty variant of write_node: the edge out of write leads back to router.
write_nodeLoops ==
    /\ MayRun("write")
    /\ \E response \in Reports : report' = response
    /\ pc' = "router"
    /\ steps' = steps + 1
    /\ UNCHANGED <<branch_state, subtopics, current_query, tool_choice,
                   search_results, report_content, decision, retries,
                   n_search, n_analyze, scenario, accepted, pass_searches,
                   before_analyze>>

write_node ==
    /\ MayRun("write")
    /\ \E response \in Reports : report' = response
    /\ pc' = "END"
    /\ steps' = steps + 1
    /\ UNCHANGED <<branch_state, subtopics, current_query, tool_choice,
                   search_results, report_content, decision, retries,
                   n_search, n_analyze, scenario, accepted, pass_searches,
                   before_analyze>>

\* The engine stops a run that has used its recursion limit without reaching END.
recursion_error ==
    /\ pc \in Nodes
    /\ steps >= recursion_limit
    /\ pc' = "GraphRecursionError"
    /\ UNCHANGED <<steps, branch_state, state_vars, n_search, n_analyze,
                   scenario, accepted, pass_searches, before_analyze>>

Next ==
    \/ planner_node
    \/ router_node
    \/ tavily_search_node
    \/ arxiv_search_node
    \/ analyze_node
    \/ should_continue
    \/ refine_query_node
    \/ write_node
    \/ recursion_error

Spec == Init /\ [][Next]_vars

\* The engine runs the next node as soon as the previous one has returned, and
\* every call to the model or to a tool returns.
FairSpec == Spec /\ WF_vars(Next)

--------------------------------------------------------------------------
(* Properties *)

IsPrefix(s, t) == Len(s) <= Len(t) /\ SubSeq(t, 1, Len(s)) = s

\* C1: in a run where the planner returns exactly 3 subtopics, the router
\* always answers TavilySearch and the analysis always answers "continue",
\* at most 3 search steps and 3 analyze steps execute, and the run ends at
\* END after exactly 3 of each, with 3 payloads in report_content and a
\* report written.
C1_ScenarioRun ==
    scenario =>
        /\ n_search <= 3
        /\ n_analyze <= 3
        /\ pc \in Terminal =>
              /\ pc = "END"
              /\ n_search = 3
              /\ n_analyze = 3
              /\ Len(report_content) = 3
              /\ report \in Reports

\* C2: when analyze_node has accepted the evidence and overridden decision to
\* "write", the step taken from the edge after analyze goes to the write node.
C2_WriteAfterOverride ==
    [][(pc = "should_continue" /\ decision = "write") => pc' = "write"]_vars

\* C3: retries is at most MAX_RETRIES in every reachable state.
C3_RetriesBounded == retries <= MAX_RETRIES

\* C4: at most recursion_limit steps execute, and every run eventually reaches
\* a terminal state: END after the write step, or a fatal error.
C4_Terminates ==
    /\ [](steps <= recursion_limit)
    /\ <>(pc \in Terminal)

C4_Witness ==
    /\ pc = "GraphRecursionError"
    /\ steps = recursion_limit
    /\ report = ""

\* C5: at an analyze exit with retries >= MAX_RETRIES, the steps that follow see
\* the state the "continue" branch of analyze_node would have produced (front
\* subtopic removed, retries 0, search_results appended to report_content,
\* current_query the new front if there is one), and control goes to router if
\* subtopics remain, else to write.
C5_ForcedAcceptance ==
    [][(pc = "should_continue" /\ retries >= MAX_RETRIES) =>
         LET u == AnalyzeUpdate(State, "continue")
         IN  /\ subtopics' = u.subtopics
             /\ retries' = u.retries
             /\ report_content' = u.report_content
             /\ current_query' = u.current_query
             /\ pc' = IF u.subtopics # <<>> THEN "router" ELSE "write"]_vars

\* C6: after the planner step the length of subtopics never increases, and the
\* analyze exit at which subtopics has become empty goes to the write node.
C6_ShrinksThenWrites ==
    [][/\ pc # "planner" => Len(subtopics') <= Len(subtopics)
       /\ (pc = "should_continue" /\ subtopics' = <<>>) => pc' = "write"]_vars

\* C7: when the write step is about to execute, report_content is the
\* sequence, in acceptance order, of the search_results held when each
\* planned subtopic was accepted, and nothing else.
C7_ReportContentIsAccepted ==
    pc = "write" => report_content = accepted

\* C8: report_content is append-only: its value before a step is a prefix of
\* its value after the step.
C8_AppendOnly ==
    [][IsPrefix(report_content, report_content')]_vars

C8_Witness ==
    /\ Len(report_content) >= 2
    /\ report_content[1] # report_content[2]

\* C9: the write node is entered only with subtopics empty, and an analyze exit
\* goes to the write node exactly when it leaves subtopics empty.
C9_EmptyIffWrite ==
    [][/\ pc' = "write" => subtopics' = <<>>
       /\ pc = "should_continue" => (subtopics' = <<>> <=> pc' = "write")]_vars

\* C10: when analyze_node does not accept (its decision is neither "continue"
\* nor "write"), it leaves subtopics, report_content and retries unchanged,
\* and analyze_node run again on the resulting state with the same answer
\* returns that state.
C10_RewriteLeavesState ==
    [][(pc = "analyze" /\ pc' = "should_continue"
          /\ decision' \notin {"continue", "write"}) =>
         /\ UNCHANGED <<subtopics, report_content, retries>>
         /\ \A response \in AnalysisResponses :
              Lower(Strip(response)) = decision' =>
                LET u == AnalyzeUpdate(State', response)
                IN  /\ u.decision = decision'
                    /\ u.subtopics = subtopics'
                    /\ u.current_query = current_query'
                    /\ u.retries = retries'
                    /\ u.report_content = report_content']_vars

C10_Witness ==
    /\ pc = "should_continue"
    /\ decision = "rewrite"
    /\ Len(subtopics) >= 2
    /\ report_content # <<>>
    /\ retries = 2


\* C11: report is empty until the write step has executed; only the write
\* step changes it, once, from empty, and the run ends there: no step
\* follows, so report never changes again.
C11_ReportSetOnce ==
    /\ [](pc # "END" => report = "")
    /\ [](pc = "END" => (report \in Reports /\ ~ENABLED Next))
    /\ [][report' # report =>
            (pc = "write" /\ report = "" /\ pc' = "END")]_vars

C11_Witness ==
    /\ pc = "END"
    /\ report \in Reports
    /\ steps > 1

\* C12: when the router answer, trimmed, is neither "TavilySearch" nor
\* "ArXiv", the router step ends the run in an error: no search node is
\* entered and no step follows.
C12_UnmatchedRouterAnswer ==
    /\ [][(pc = "router" /\ steps' = steps + 1
             /\ tool_choice' \notin {"TavilySearch", "ArXiv"}) =>
            pc' = "KeyError"]_vars
    /\ [](pc = "KeyError" =>
            (tool_choice \notin {"TavilySearch", "ArXiv"} /\ ~ENABLED Next))

C12_Witness ==
    /\ pc = "KeyError"
    /\ tool_choice = "Other"
    /\ report_content # <<>>


\* The accept branch of analyze_node has acted in this step.
TookAcceptBranch ==
    /\ subtopics' = PopFront(subtopics)
    /\ retries' = 0
    /\ report_content' = Append(report_content, search_results)

\* C13: the analyze step takes the accept branch (front subtopic removed,
\* retries 0, search_results appended) exactly for the answers whose trimmed,
\* lower-cased text contains "continue"; for every other answer it takes the
\* rewrite branch.  (After the accept branch decision is "continue" or
\* "write"; after the rewrite branch it is the answer's text.)
C13_ContainmentAccepts ==
    [][(pc = "analyze" /\ pc' = "should_continue") =>
         ((ContainsContinue(decision') \/ decision' = "write")
             <=> TookAcceptBranch)]_vars

\* The first tool name that occurs in a trimmed router answer ("" if none).
FirstToolName(text) ==
    CASE text = "TavilySearch"         -> "TavilySearch"
      [] text \in {"ArXiv", "ArXiv."} -> "ArXiv"
      [] OTHER                         -> ""

SearchNodeOf(tool) ==
    CASE tool = "TavilySearch" -> "tavily_search"
      [] tool = "ArXiv"        -> "arxiv_search"
      [] OTHER                 -> "KeyError"

\* C14 (as claimed): the router step sets tool_choice to the first tool name
\* that occurs in the trimmed answer, and the run goes to that tool's search
\* node, also when the answer holds other text beside the name.
C14_FirstToolNameDispatch ==
    [][(pc = "router" /\ steps' = steps + 1
          /\ FirstToolName(tool_choice') # "") =>
         /\ tool_choice' = FirstToolName(tool_choice')
         /\ pc' = SearchNodeOf(tool_choice')]_vars

\* C14 (amended): the router step sets tool_choice to the whole trimmed
\* answer; the run goes to a search node only when that text is exactly
\* "TavilySearch" or "ArXiv", and ends in the edge's lookup error for any
\* other text, a tool name followed by other text included.
C14_ExactNameDispatch ==
    [][(pc = "router" /\ steps' = steps + 1) =>
         /\ tool_choice' \in {"TavilySearch", "ArXiv", "ArXiv.", "Other"}
         /\ pc' = SearchNodeOf(tool_choice')
         /\ pc' \in {"tavily_search", "arxiv_search"}
               <=> tool_choice' \in {"TavilySearch", "ArXiv"}]_vars

C14_Witness ==
    /\ pc = "KeyError"
    /\ tool_choice = "ArXiv."
    /\ FirstToolName(tool_choice) = "ArXiv"


\* The non-empty lines of a planner answer, in order.
NonEmptyLines(ls) == SelectSeq(ls, LAMBDA l : l # "")

\* C15: after the planner step subtopics is the sequence of the non-empty
\* lines of the model's answer, retries is 0, and current_query is the first
\* subtopic, or the topic when the answer yields no subtopic.
C15_PlannerParsesLines ==
    [][(pc = "planner" /\ pc' = "router") =>
         /\ \E response \in PlannerResponses :
               subtopics' = NonEmptyLines(response)
         /\ retries' = 0
         /\ current_query' =
               IF subtopics' # <<>> THEN subtopics'[1] ELSE topic]_vars


\* C16: a search step (tavily_search or arxiv_search) sets search_results to
\* the payload of the tool for current_query and retries to its previous value
\* plus 1, and changes no other field of the state.
C16_SearchStepEffect ==
    [][(pc \in {"tavily_search", "arxiv_search"} /\ pc' = "analyze") =>
         /\ search_results' = Results(current_query)
         /\ retries' = retries + 1
         /\ UNCHANGED <<subtopics, current_query, tool_choice, decision,
                        report_content, report>>]_vars

C16_Witness ==
    /\ pc = "analyze"
    /\ retries = 2
    /\ search_results = "results(r1)"
    /\ decision = "rewrite"
    /\ report_content # <<>>


SearchNodes == {"tavily_search", "arxiv_search"}

\* C17: the executed steps follow the graph.  planner runs first and only
\* once; a search step is entered from router only and the step after it is
\* analyze; refine_query is entered from the exit of analyze only and the step
\* after it is router; the step after analyze (through should_continue) is
\* router, refine_query or write.  (A run the engine stops at its recursion
\* limit has no further step.)
C17_StepsFollowGraph ==
    /\ [](pc = "planner" <=> steps = 0)
    /\ [][
          /\ pc' # "planner"
          /\ (pc' \in SearchNodes => pc = "router")
          /\ (pc \in SearchNodes => pc' \in {"analyze", "GraphRecursionError"})
          /\ (pc' = "analyze" => pc \in SearchNodes)
          /\ (pc' = "should_continue" => pc = "analyze")
          /\ (pc = "analyze" => pc' \in {"should_continue", "GraphRecursionError"})
          /\ (pc = "should_continue" => pc' \in {"router", "refine_query", "write"})
          /\ (pc' = "refine_query" => pc = "should_continue")
          /\ (pc = "refine_query" => pc' \in {"router", "GraphRecursionError"})
          /\ (pc' = "write" => pc = "should_continue")
          /\ (pc' = "router" => pc \in {"planner", "refine_query", "should_continue"})
       ]_pc

C17_Witness ==
    /\ pc = "arxiv_search"
    /\ current_query = "r1"
    /\ retries = 2
    /\ report_content # <<>>


\* C18: between the planner step and the first acceptance, and between two
\* consecutive acceptances (the accept branch of analyze or the forced
\* acceptance of should_continue taking effect), at most MAX_RETRIES search
\* steps execute, whatever the analysis and refinement answers are; the
\* refine_query step leaves retries as it is.
C18_SearchesPerPassBounded ==
    /\ [](pass_searches <= MAX_RETRIES)
    /\ [][pc = "refine_query" => retries' = retries]_vars

C18_Witness ==
    /\ pc = "analyze"
    /\ pass_searches = MAX_RETRIES
    /\ current_query = "r1"
    /\ report_content # <<>>


\* C19: one exit of analyze (analyze_node, then should_continue) removes at
\* most one subtopic and appends to report_content at most once: when the
\* accept branch of analyze_node has taken effect (decision is "continue" or
\* "write"), the forced acceptance of should_continue does not.
C19_OneAcceptancePerExit ==
    [][pc = "should_continue" =>
         /\ Len(subtopics') >= before_analyze[1] - 1
         /\ Len(report_content') <= before_analyze[2] + 1
         /\ decision \in {"continue", "write"} =>
               /\ retries < MAX_RETRIES
               /\ UNCHANGED <<subtopics, report_content>>]_vars

C19_Witness ==
    /\ pc = "should_continue"
    /\ before_analyze[3] = MAX_RETRIES
    /\ decision = "continue"
    /\ Len(subtopics) = before_analyze[1] - 1
    /\ Len(report_content) = before_analyze[2] + 1


\* C20: when the router step starts right after the planner or right after an
\* acceptance (analysed or forced: no search since) with subtopics non-empty,
\* retries is 0 and current_query is the front element of subtopics; a
\* refined query of the previous subtopic is not carried over.
C20_QueryIsFrontSubtopic ==
    (pc = "router" /\ pass_searches = 0 /\ subtopics # <<>>) =>
        /\ retries = 0
        /\ current_query = subtopics[1]

==========================================================================
